---- MODULE Spec2Model ----
(***************************************************************************)
(* Model of main.py: a run that triggers a Buildkite build, optionally     *)
(* waits for it to finish, emits six outputs and classifies the state.     *)
(*                                                                         *)
(* Text is a sequence of symbols.  A symbol is one character, except that  *)
(* the words the program never looks inside (field names, state names,    *)
(* the literal pieces of the endpoint) are one symbol each.                *)
(***************************************************************************)
EXTENDS Integers, Sequences, FiniteSets, TLC

(* ------------------------------ bounds --------------------------------- *)
MaxIdLen == 4
MaxPolls == 10
MaxDelay == 5

(* --------------------------- program constants ------------------------- *)
SleepInterval == 15
StatusInterval == 60

VARIABLES
  pc,            \* position of the run
  context,       \* ActionContext
  build_info,    \* main's build_info
  w_build_info,  \* wait_for_build's build_info
  req,           \* the request last handed to http_send
  now,           \* datetime.now()
  last_status,   \* wait_for_build's last_status
  heartbeats,    \* elapsed waiting time at each "Still waiting" notice
  wait_start,    \* value of now when wait_for_build was entered
  instant,       \* every request so far took no time
  received,      \* the record http_send returned last
  n_post, n_get, n_sleep,  \* POSTs and GETs answered, sleeps done
  n_fail,        \* requests that failed
  finished_polls,  \* GET responses so far with a non-empty finished_at
  outputs,       \* the ::set-output lines printed, in order
  error,         \* exception that ended the run, "none" otherwise
  exit_code,     \* process exit status, -1 while running
  url1, url2     \* results of two calls of pipeline_url on context.pipeline

vars == <<pc, context, build_info, w_build_info, req, now, last_status,
          heartbeats, wait_start, instant, received, n_post, n_get, n_sleep,
          n_fail, finished_polls, outputs, error, exit_code, url1, url2>>

(* ------------------------------ strings -------------------------------- *)
Contains(s, c) == \E i \in 1..Len(s) : s[i] = c

FirstIndex(s, c) ==
  IF Contains(s, c)
  THEN CHOOSE i \in 1..Len(s) : s[i] = c /\ \A j \in 1..(i-1) : s[j] # c
  ELSE 0

\* str.split("/", maxsplit=1)
split1(s) ==
  LET i == FirstIndex(s, "/")
  IN IF i = 0 THEN <<s>>
     ELSE <<SubSeq(s, 1, i-1), SubSeq(s, i+1, Len(s))>>

ApiPrefix == <<"https://api.buildkite.com/v2/organizations/">>
PipelinesPart == <<"/pipelines/">>
BuildsPart == <<"/builds">>

Raised(e) == [err |-> e, url |-> <<>>]
Returned(u) == [err |-> "none", url |-> u]

\* faulty variant: the pipeline segment is not checked for a second "/"
pipeline_url_no_slash_check(pipeline) ==
  LET parts == split1(pipeline)
  IN IF Len(parts) # 2 THEN Raised("ValueError")
     ELSE IF parts[1] = <<>> \/ parts[2] = <<>> THEN Raised("ValueError")
     ELSE Returned(ApiPrefix \o parts[1] \o PipelinesPart \o parts[2] \o BuildsPart)

\* faulty variant: the two segments are interpolated in the wrong order
pipeline_url_swapped(pipeline) ==
  LET parts == split1(pipeline)
  IN IF Len(parts) # 2 THEN Raised("ValueError")
     ELSE IF parts[1] = <<>> \/ parts[2] = <<>> \/ Contains(parts[2], "/")
          THEN Raised("ValueError")
     ELSE Returned(ApiPrefix \o parts[2] \o PipelinesPart \o parts[1] \o BuildsPart)

\* unpacking a one-element list into two names raises ValueError
pipeline_url(pipeline) ==
  LET parts == split1(pipeline)
  IN IF Len(parts) # 2 THEN Raised("ValueError")
     ELSE LET organization == parts[1]
              pipeline2 == parts[2]
          IN IF organization = <<>> \/ pipeline2 = <<>> \/ Contains(pipeline2, "/")
             THEN Raised("ValueError")
             ELSE Returned(ApiPrefix \o organization \o PipelinesPart
                           \o pipeline2 \o BuildsPart)

(* ------------------------------- JSON ---------------------------------- *)
\* A decoded JSON value: a str, an int or None.
JStr(s) == [t |-> "str", s |-> s]
JInt(n) == [t |-> "int", n |-> n]
JNone == [t |-> "null"]

Quote == "\""
Backslash == "\\"
Digits == <<"0", "1", "2", "3", "4", "5", "6", "7", "8", "9">>
IsDigit(c) == \E d \in 1..10 : Digits[d] = c
DigitVal(c) == (CHOOSE d \in 1..10 : Digits[d] = c) - 1
NullText == <<"n", "u", "l", "l">>

\* The order in which a record's keys are written (a dict keeps the order
\* in which the response listed them).
KeyOrder == <<"id", "number", "url", "web_url", "state", "finished_at">>

RECURSIVE EscapeStr(_)
EscapeStr(s) ==
  IF s = <<>> THEN <<>>
  ELSE LET c == Head(s)
       IN (IF c = Quote \/ c = Backslash THEN <<Backslash, c>> ELSE <<c>>)
          \o EscapeStr(Tail(s))

EncodeStr(s) == <<Quote>> \o EscapeStr(s) \o <<Quote>>

RECURSIVE EncodeInt(_)
EncodeInt(n) ==
  IF n < 10 THEN <<Digits[n + 1]>>
  ELSE EncodeInt(n \div 10) \o <<Digits[(n % 10) + 1]>>

EncodeValue(v) ==
  CASE v.t = "str" -> EncodeStr(v.s)
    [] v.t = "int" -> EncodeInt(v.n)
    [] v.t = "null" -> NullText

RECURSIVE EncodeMembers(_, _, _, _, _)
EncodeMembers(rec, i, first, itemSep, keySep) ==
  IF i > Len(KeyOrder) THEN <<>>
  ELSE LET k == KeyOrder[i]
       IN IF k \in DOMAIN rec
          THEN (IF first THEN <<>> ELSE itemSep)
               \o EncodeStr(<<k>>) \o keySep \o EncodeValue(rec[k])
               \o EncodeMembers(rec, i + 1, FALSE, itemSep, keySep)
          ELSE EncodeMembers(rec, i + 1, first, itemSep, keySep)

JsonEncode(rec, itemSep, keySep) ==
  <<"{">> \o EncodeMembers(rec, 1, TRUE, itemSep, keySep) \o <<"}">>

\* json.dumps with its default separators ", " and ": "
JsonDumps(rec) == JsonEncode(rec, <<",", " ">>, <<":", " ">>)

RECURSIVE SkipWs(_, _)
SkipWs(t, i) == IF i <= Len(t) /\ t[i] = " " THEN SkipWs(t, i + 1) ELSE i

\* t[i] is the first symbol after the opening quote
RECURSIVE ScanStr(_, _, _)
ScanStr(t, i, acc) ==
  IF t[i] = Quote THEN [val |-> JStr(acc), next |-> i + 1]
  ELSE IF t[i] = Backslash THEN ScanStr(t, i + 2, Append(acc, t[i + 1]))
  ELSE ScanStr(t, i + 1, Append(acc, t[i]))

RECURSIVE ScanInt(_, _, _)
ScanInt(t, i, acc) ==
  IF i <= Len(t) /\ IsDigit(t[i]) THEN ScanInt(t, i + 1, acc * 10 + DigitVal(t[i]))
  ELSE [val |-> JInt(acc), next |-> i]

ParseValue(t, i) ==
  IF t[i] = Quote THEN ScanStr(t, i + 1, <<>>)
  ELSE IF IsDigit(t[i]) THEN ScanInt(t, i, 0)
  ELSE [val |-> JNone, next |-> i + Len(NullText)]

\* t[i] is the opening quote of a key; a repeated key keeps its last value
RECURSIVE ParseMembers(_, _, _)
ParseMembers(t, i, acc) ==
  LET key == ScanStr(t, i + 1, <<>>)
      colon == SkipWs(t, key.next)
      value == ParseValue(t, SkipWs(t, colon + 1))
      after == SkipWs(t, value.next)
      acc2 == (key.val.s[1] :> value.val) @@ acc
  IN IF t[after] = "," THEN ParseMembers(t, SkipWs(t, after + 1), acc2)
     ELSE acc2

\* json.loads of the text of a flat JSON object
JsonLoads(t) ==
  LET open == SkipWs(t, 1)
      first == SkipWs(t, open + 1)
  IN IF t[first] = "}" THEN <<>> ELSE ParseMembers(t, first, <<>>)

\* bool(v) of a decoded value
Truthy(v) ==
  CASE v.t = "str" -> v.s # <<>>
    [] v.t = "int" -> v.n # 0
    [] v.t = "null" -> FALSE

\* dict.get(key): None when the key is absent
Get(rec, k) == IF k \in DOMAIN rec THEN rec[k] ELSE JNone

\* str(v) as an f-string interpolates it
Format(v) ==
  CASE v.t = "str" -> v.s
    [] v.t = "int" -> EncodeInt(v.n)
    [] v.t = "null" -> <<"N", "o", "n", "e">>

(* --------------------------- the environment --------------------------- *)
Alphabet == {"o", "p", "/"}
Identifiers == UNION {[1..n -> Alphabet] : n \in 0..MaxIdLen}
MainPipelines == {<<"o", "/", "p">>, <<"o", "p">>, <<"o", "/", "p", "/", "p">>}

Scheduled == <<"scheduled">>
Running == <<"running">>
Passed == <<"passed">>
Failed == <<"failed">>
BuildStates == {Scheduled, Running, Passed, Failed}

\* What the API tells of a build besides its state and completion time.
FactsA == [id |-> JStr(<<"1">>), number |-> JInt(5),
           url |-> JStr(<<"U">>), web_url |-> JStr(<<"W">>)]
FactsB == [id |-> JStr(<<"a", Quote, Backslash>>), number |-> JInt(120),
           url |-> JStr(<<"V">>), web_url |-> JStr(<<"X">>)]

Timestamp == JStr(<<"2024-01-01T00:00:00Z">>)

\* finished_at is absent, null or empty while the build is in progress
BuildRecords ==
  { FactsA @@ [state |-> JStr(st)] : st \in BuildStates }
  \cup { FactsB @@ [state |-> JStr(st), finished_at |-> JNone] : st \in BuildStates }
  \cup { FactsA @@ [state |-> JStr(st), finished_at |-> JStr(<<>>)] : st \in BuildStates }
  \cup { FactsB @@ [state |-> JStr(st), finished_at |-> Timestamp] : st \in BuildStates }
  \cup { FactsA @@ [state |-> JStr(st), finished_at |-> Timestamp] : st \in {Passed, Failed} }

\* The response bodies the API (or, in test mode, a fixture file) may hold.
Compact(r) == JsonEncode(r, <<",">>, <<":">>)
PollBodies == { Compact(r) : r \in BuildRecords }
TriggerBodies ==
  { Compact(r) : r \in { x \in BuildRecords :
       "finished_at" \in DOMAIN x => x["finished_at"] = Timestamp } }

\* res.read() of every body, decoded by json.loads
Decoded == [b \in PollBodies |-> JsonLoads(b)]

\* Both branches of http_send decode what they read; the body is the
\* environment's choice in either.
http_send(body) == Decoded[body]

Durations == {0, MaxDelay}

(* ------------------------------ the run -------------------------------- *)
NotCalled == [err |-> "not called", url |-> <<>>]

InitCommon ==
  /\ build_info = <<>>
  /\ w_build_info = <<>>
  /\ req = [method |-> "none", url |-> <<>>]
  /\ now = 0
  /\ last_status = 0
  /\ heartbeats = <<>>
  /\ wait_start = 0
  /\ instant = TRUE
  /\ received = <<>>
  /\ n_post = 0 /\ n_get = 0 /\ n_sleep = 0 /\ n_fail = 0
  /\ finished_polls = 0
  /\ outputs = <<>>
  /\ error = "none"
  /\ exit_code = -1
  /\ url1 = NotCalled
  /\ url2 = NotCalled

Init ==
  /\ pc = "start"
  /\ context \in [pipeline : MainPipelines, is_async : BOOLEAN]
  /\ InitCommon

\* An exception nobody catches ends the process with status 1.
Abort(e) ==
  /\ pc' = "done"
  /\ error' = e
  /\ exit_code' = 1

\* What urlopen (open, in test mode) raises when it fails: URLError and
\* FileNotFoundError are both OSError.
TransportError == "OSError"

\* faulty variant: the trigger response is taken as the first record of the loop
InitialWaitRecord_trigger == build_info

InitialWaitRecord == <<>>

\* faulty variant: a finished_at key that is present ends the loop, whatever it holds
LoopDone_key_present(rec) == "finished_at" \in DOMAIN rec

\* the negation of the loop condition of wait_for_build
LoopDone(rec) == Truthy(Get(rec, "finished_at"))

\* faulty variant: the notice is due as soon as 60 units have passed
HeartbeatDue_at_60(t, last) == t - last >= StatusInterval

HeartbeatDue(t, last) == t - last > StatusInterval

\* faulty variant: running is not an accepted state
AcceptedStates_no_running == {Scheduled, Passed}

AcceptedStates == {Scheduled, Running, Passed}

\* faulty variant: the wait is entered in asynchronous mode too
AfterTrigger_always_wait == "wait"

AfterTrigger == IF context.is_async THEN "emit" ELSE "wait"

\* faulty variant: the record of the trigger call is returned
WaitResult_trigger == build_info

WaitResult == w_build_info

TriggerInvalid ==
  /\ pc = "start"
  /\ pipeline_url(context.pipeline).err # "none"
  /\ Abort(pipeline_url(context.pipeline).err)
  /\ UNCHANGED <<context, build_info, w_build_info, req, now, last_status,
                 heartbeats, wait_start, instant, received, n_post, n_get,
                 n_sleep, n_fail, finished_polls, outputs, url1, url2>>

TriggerFail ==
  /\ pc = "start"
  /\ pipeline_url(context.pipeline).err = "none"
  /\ req' = [method |-> "POST", url |-> pipeline_url(context.pipeline).url]
  /\ n_fail' = n_fail + 1
  /\ Abort(TransportError)
  /\ UNCHANGED <<context, build_info, w_build_info, now, last_status,
                 heartbeats, wait_start, instant, received, n_post, n_get,
                 n_sleep, finished_polls, outputs, url1, url2>>

TriggerOk ==
  /\ pc = "start"
  /\ pipeline_url(context.pipeline).err = "none"
  /\ req' = [method |-> "POST", url |-> pipeline_url(context.pipeline).url]
  /\ \E body \in TriggerBodies, d \in Durations :
       /\ build_info' = http_send(body)
       /\ received' = http_send(body)
       /\ now' = now + d
       /\ instant' = (instant /\ d = 0)
  /\ n_post' = n_post + 1
  /\ pc' = AfterTrigger
  /\ UNCHANGED <<context, w_build_info, last_status, heartbeats, wait_start,
                 n_get, n_sleep, n_fail, finished_polls, outputs, error,
                 exit_code, url1, url2>>

EnterWait ==
  /\ pc = "wait"
  /\ req' = [method |-> "GET", url |-> build_info["url"].s]
  /\ last_status' = now
  /\ wait_start' = now
  /\ w_build_info' = InitialWaitRecord
  /\ pc' = "loop"
  /\ UNCHANGED <<context, build_info, now, heartbeats, instant, received,
                 n_post, n_get, n_sleep, n_fail, finished_polls, outputs,
                 error, exit_code, url1, url2>>

Sleep ==
  /\ pc = "loop"
  /\ ~LoopDone(w_build_info)
  /\ n_sleep < MaxPolls
  /\ now' = now + SleepInterval
  /\ n_sleep' = n_sleep + 1
  /\ pc' = "status"
  /\ UNCHANGED <<context, build_info, w_build_info, req, last_status,
                 heartbeats, wait_start, instant, received, n_post, n_get,
                 n_fail, finished_polls, outputs, error, exit_code, url1, url2>>

Status ==
  /\ pc = "status"
  /\ IF HeartbeatDue(now, last_status)
     THEN /\ heartbeats' = Append(heartbeats, now - wait_start)
          /\ last_status' = now
     ELSE UNCHANGED <<heartbeats, last_status>>
  /\ pc' = "poll"
  /\ UNCHANGED <<context, build_info, w_build_info, req, now, wait_start,
                 instant, received, n_post, n_get, n_sleep, n_fail,
                 finished_polls, outputs, error, exit_code, url1, url2>>

\* faulty variant: a failed poll is tried again
PollFail_retry ==
  /\ pc = "poll"
  /\ n_fail < 2
  /\ n_fail' = n_fail + 1
  /\ UNCHANGED <<pc, context, build_info, w_build_info, req, now, last_status,
                 heartbeats, wait_start, instant, received, n_post, n_get,
                 n_sleep, finished_polls, outputs, error, exit_code, url1, url2>>

PollFail ==
  /\ pc = "poll"
  /\ n_fail' = n_fail + 1
  /\ Abort(TransportError)
  /\ UNCHANGED <<context, build_info, w_build_info, req, now, last_status,
                 heartbeats, wait_start, instant, received, n_post, n_get,
                 n_sleep, finished_polls, outputs, url1, url2>>

PollOk ==
  /\ pc = "poll"
  /\ \E body \in PollBodies, d \in Durations :
       /\ w_build_info' = http_send(body)
       /\ received' = http_send(body)
       /\ finished_polls' = finished_polls
            + (IF Truthy(Get(http_send(body), "finished_at")) THEN 1 ELSE 0)
       /\ now' = now + d
       /\ instant' = (instant /\ d = 0)
  /\ n_get' = n_get + 1
  /\ pc' = "loop"
  /\ UNCHANGED <<context, build_info, req, last_status, heartbeats, wait_start,
                 n_post, n_sleep, n_fail, outputs, error, exit_code, url1, url2>>

Return ==
  /\ pc = "loop"
  /\ LoopDone(w_build_info)
  /\ build_info' = WaitResult
  /\ pc' = "emit"
  /\ UNCHANGED <<context, w_build_info, req, now, last_status, heartbeats,
                 wait_start, instant, received, n_post, n_get, n_sleep, n_fail,
                 finished_polls, outputs, error, exit_code, url1, url2>>

Output(name, value) == [name |-> name, value |-> value]

\* faulty variant: the state is classified before anything is printed
Emit_after_classify ==
  /\ pc = "emit"
  /\ IF build_info["state"].s \in AcceptedStates
     THEN /\ outputs' = << Output("id", Format(build_info["id"])),
                          Output("number", Format(build_info["number"])),
                          Output("url", Format(build_info["url"])),
                          Output("web_url", Format(build_info["web_url"])),
                          Output("state", Format(build_info["state"])),
                          Output("data", JsonDumps(build_info)) >>
          /\ pc' = "classify"
          /\ UNCHANGED <<error, exit_code>>
     ELSE /\ Abort("RuntimeError")
          /\ UNCHANGED outputs
  /\ UNCHANGED <<context, build_info, w_build_info, req, now, last_status,
                 heartbeats, wait_start, instant, received, n_post, n_get,
                 n_sleep, n_fail, finished_polls, url1, url2>>

Emit ==
  /\ pc = "emit"
  /\ outputs' = << Output("id", Format(build_info["id"])),
                   Output("number", Format(build_info["number"])),
                   Output("url", Format(build_info["url"])),
                   Output("web_url", Format(build_info["web_url"])),
                   Output("state", Format(build_info["state"])),
                   Output("data", JsonDumps(build_info)) >>
  /\ pc' = "classify"
  /\ UNCHANGED <<context, build_info, w_build_info, req, now, last_status,
                 heartbeats, wait_start, instant, received, n_post, n_get,
                 n_sleep, n_fail, finished_polls, error, exit_code, url1, url2>>

ClassifyFailed ==
  /\ pc = "classify"
  /\ build_info["state"].s \notin AcceptedStates
  /\ Abort("RuntimeError")
  /\ UNCHANGED <<context, build_info, w_build_info, req, now, last_status,
                 heartbeats, wait_start, instant, received, n_post, n_get,
                 n_sleep, n_fail, finished_polls, outputs, url1, url2>>

ClassifyAccepted ==
  /\ pc = "classify"
  /\ build_info["state"].s \in AcceptedStates
  /\ pc' = "done"
  /\ exit_code' = 0
  /\ UNCHANGED <<context, build_info, w_build_info, req, now, last_status,
                 heartbeats, wait_start, instant, received, n_post, n_get,
                 n_sleep, n_fail, finished_polls, outputs, error, url1, url2>>

Next ==
  \/ TriggerInvalid
  \/ TriggerFail
  \/ TriggerOk
  \/ EnterWait
  \/ Sleep
  \/ Status
  \/ PollFail
  \/ PollOk
  \/ Return
  \/ Emit
  \/ ClassifyFailed
  \/ ClassifyAccepted

Spec == Init /\ [][Next]_vars

\* The run is one sequential process: it always takes its next step.
FairSpec == Spec /\ WF_vars(Next)

(* ------------------- pipeline_url called on its own -------------------- *)
UrlInit ==
  /\ pc = "url_first"
  /\ context \in [pipeline : Identifiers, is_async : {FALSE}]
  /\ InitCommon

FirstCall ==
  /\ pc = "url_first"
  /\ url1' = pipeline_url(context.pipeline)
  /\ pc' = "url_second"
  /\ UNCHANGED <<context, build_info, w_build_info, req, now, last_status,
                 heartbeats, wait_start, instant, received, n_post, n_get,
                 n_sleep, n_fail, finished_polls, outputs, error, exit_code, url2>>

SecondCall ==
  /\ pc = "url_second"
  /\ url2' = pipeline_url(context.pipeline)
  /\ pc' = "url_done"
  /\ UNCHANGED <<context, build_info, w_build_info, req, now, last_status,
                 heartbeats, wait_start, instant, received, n_post, n_get,
                 n_sleep, n_fail, finished_polls, outputs, error, exit_code, url1>>

UrlNext == FirstCall \/ SecondCall

UrlSpec == UrlInit /\ [][UrlNext]_vars

(* ------------------------------ claims --------------------------------- *)
Finished(rec) == Truthy(Get(rec, "finished_at"))
InWait == pc \in {"loop", "status", "poll"}
AfterWait == pc \in {"emit", "classify", "done"}
OutputNames == [i \in 1..Len(outputs) |-> outputs[i].name]
SixNames == <<"id", "number", "url", "web_url", "state", "data">>
OutputValue(name) == (CHOOSE i \in 1..Len(outputs) : outputs[i].name = name)
ValueOf(name) == outputs[OutputValue(name)].value

\* C1: in synchronous mode with every request succeeding, every GET follows
\* exactly one sleep of 15 units (sleep, then GET), the GET that first
\* answers a non-empty finished_at is the last one, at least one GET is made
\* whatever the trigger response holds, and the run that ends after polls
\* r1..rn has made n GETs and n sleeps.
C1_PollsAndSleeps ==
  (~context.is_async /\ n_fail = 0) =>
    /\ n_sleep = n_get + (IF pc \in {"status", "poll"} THEN 1 ELSE 0)
    /\ instant => now - wait_start = SleepInterval * n_sleep
    /\ finished_polls <= 1
    /\ finished_polls = 1 => (pc \notin {"status", "poll"} /\ Finished(received))
    /\ (InWait /\ n_get >= 1 /\ finished_polls = 0) => ~Finished(received)
    /\ (AfterWait /\ n_post = 1) =>
         (n_get >= 1 /\ n_sleep = n_get /\ finished_polls = 1)

\* two polls, the second finished and passed: two sleeps, exit 0,
\* state=passed
C1_Witness ==
  /\ ~context.is_async /\ pc = "done" /\ n_fail = 0
  /\ n_get = 2 /\ n_sleep = 2 /\ instant /\ now = 30
  /\ exit_code = 0
  /\ ValueOf("state") = Passed

\* C2: a run that fails on the build state has emitted the six outputs id,
\* number, url, web_url, state, data, in that order, before failing.
C2_OutputsBeforeFailure ==
  /\ error = "RuntimeError" => OutputNames = SixNames
  /\ pc = "classify" => OutputNames = SixNames

C2_Witness ==
  /\ pc = "done" /\ error = "RuntimeError" /\ exit_code = 1
  /\ ValueOf("state") = Failed
  /\ Len(outputs) = 6

\* C3: a run whose requests all succeeded ends with a non-zero exit exactly
\* when the state of the last record received is not scheduled, running or
\* passed, in either mode.
C3_FailureIffNotAccepted ==
  (pc = "done" /\ n_fail = 0 /\ n_post = 1) =>
    (exit_code # 0 <=> received["state"].s \notin {Scheduled, Running, Passed})

\* a synchronous run whose finished record is still running exits 0
C3_Witness ==
  /\ pc = "done" /\ ~context.is_async /\ n_get >= 1 /\ n_fail = 0
  /\ Finished(received) /\ received["state"].s = Running
  /\ exit_code = 0

\* C4: in asynchronous mode the only request is the trigger POST, there is
\* no sleep and no GET, and the state output is the trigger response's state.
C4_AsyncOneRequest ==
  context.is_async =>
    /\ n_get = 0 /\ n_sleep = 0 /\ n_post + n_fail <= 1
    /\ req.method \in {"none", "POST"}
    /\ pc \notin {"wait", "loop", "status", "poll"}
    /\ (pc = "done" /\ n_fail = 0 /\ n_post = 1) =>
         (ValueOf("state") = build_info["state"].s /\ build_info = received)

C4_Witness ==
  /\ context.is_async /\ pc = "done" /\ n_post = 1
  /\ ValueOf("state") = Scheduled /\ exit_code = 0

\* C5: once the outputs are emitted, data decodes to the last record
\* received and the five other outputs are that record's fields.
C5_DataRoundTrip ==
  outputs # <<>> =>
    /\ JsonLoads(ValueOf("data")) = received
    /\ \A k \in {"id", "number", "url", "web_url", "state"} :
         ValueOf(k) = Format(received[k])

\* synchronous run whose last poll answered another record than the trigger
C5_Witness ==
  /\ outputs # <<>> /\ ~context.is_async /\ n_get >= 2
  /\ received["id"] = FactsB["id"]
  /\ ValueOf("number") = <<"1", "2", "0">>
  /\ ValueOf("data") # Compact(received)

SlashCount(id) == Cardinality({i \in 1..Len(id) : id[i] = "/"})

\* no "/", an empty organization, an empty pipeline or a second "/"
Malformed(id) ==
  \/ SlashCount(id) = 0
  \/ SlashCount(id) >= 2
  \/ id[1] = "/"
  \/ id[Len(id)] = "/"

\* C6: pipeline_url raises ValueError, and returns no URL, for an identifier
\* with no "/", an empty organization, an empty pipeline, or a second "/"
\* in the pipeline segment.
C6_MalformedRejected ==
  (pc # "url_first" /\ Malformed(context.pipeline)) =>
    (url1.err = "ValueError" /\ url1.url = <<>>)

\* an identifier with no "/" at all: the unpacking of the split fails
C6_Witness ==
  /\ pc = "url_done"
  /\ context.pipeline = <<"o", "p">>
  /\ url1.err = "ValueError"

\* C7: for organization/pipeline with one "/" and both segments non-empty,
\* pipeline_url returns the endpoint with the organization first and the
\* pipeline second, and a second call returns the same string.
C7_UrlOfValidIdentifier ==
  /\ \A i \in 2..(Len(context.pipeline) - 1) :
       ( /\ pc # "url_first"
         /\ SlashCount(context.pipeline) = 1
         /\ context.pipeline[i] = "/" ) =>
           /\ url1.err = "none"
           /\ url1.url = ApiPrefix \o SubSeq(context.pipeline, 1, i - 1)
                         \o PipelinesPart
                         \o SubSeq(context.pipeline, i + 1, Len(context.pipeline))
                         \o BuildsPart
  /\ pc = "url_done" => url2 = url1

C7_Witness ==
  /\ pc = "url_done"
  /\ context.pipeline = <<"o", "o", "/", "p">>
  /\ url1.url = <<"https://api.buildkite.com/v2/organizations/", "o", "o",
                  "/pipelines/", "p", "/builds">>
  /\ url2 = url1

LastHeartbeat == IF heartbeats = <<>> THEN 0 ELSE heartbeats[Len(heartbeats)]

\* C8 as stated: with instantaneous requests the notice comes in the first
\* iteration at which 60 units have passed since the wait began or since
\* the previous notice, at elapsed times 60, 120, 180, ...
C8_HeartbeatAt60 ==
  instant =>
    /\ pc = "poll" => now - last_status < StatusInterval
    /\ \A i \in 1..Len(heartbeats) : heartbeats[i] = StatusInterval * i

\* C8 amended: the notice comes in the first iteration at which MORE than
\* 60 units have passed since the wait began or since the previous notice;
\* with instantaneous requests that is at elapsed times 75, 150, 225, ...
C8_HeartbeatAfter60 ==
  /\ pc = "poll" => now - last_status <= StatusInterval
  /\ InWait => last_status - wait_start = LastHeartbeat
  /\ \A i \in 1..Len(heartbeats) :
       heartbeats[i] - (IF i = 1 THEN 0 ELSE heartbeats[i - 1]) > StatusInterval
  /\ instant =>
       \A i \in 1..Len(heartbeats) :
         heartbeats[i] = (StatusInterval + SleepInterval) * i

C8_Witness ==
  /\ instant /\ pc = "poll" /\ n_fail = 0
  /\ heartbeats = <<75, 150>>
  /\ now - wait_start = 150

\* C9: a failed POST or GET ends the run at once with a non-zero exit: it is
\* not tried again, nothing is requested or slept after it, and no output
\* is emitted.
C9_FailureAborts ==
  /\ [](n_fail >= 1 =>
          /\ pc = "done" /\ exit_code = 1 /\ error = TransportError
          /\ n_fail = 1
          /\ outputs = <<>>)
  /\ [][n_fail = 0]_vars

C9_Witness ==
  /\ n_fail = 1 /\ n_get >= 1 /\ req.method = "GET"
  /\ pc = "done" /\ exit_code = 1 /\ outputs = <<>>

\* C10: the waiter returns only with a record whose finished_at is
\* non-empty, it leaves the loop by nothing but such a poll response (or a
\* failed request), an unfinished record always leads to another sleep,
\* and a finished poll response leads to the end of the run.
C10_ReturnsIffFinished ==
  /\ []((AfterWait /\ ~context.is_async /\ n_post = 1 /\ n_fail = 0) =>
          (Finished(build_info) /\ build_info = received /\ n_get >= 1))
  /\ [][(InWait /\ ~InWait') =>
          (n_fail' = 1 \/ (n_get >= 1 /\ Finished(received) /\ pc' = "emit"))]_vars
  /\ [][(pc = "loop" /\ ~Finished(w_build_info)) =>
          (pc' = "status" /\ n_sleep' = n_sleep + 1)]_vars
  /\ (pc = "loop" /\ Finished(w_build_info)) ~> (pc = "done" /\ n_fail = 0)

\* the loop turns MaxPolls times on records whose finished_at is absent,
\* null or empty
C10_Witness ==
  /\ pc = "loop" /\ n_get >= 5 /\ n_fail = 0
  /\ "finished_at" \in DOMAIN w_build_info
  /\ w_build_info["finished_at"] = JNone

====
